---- MODULE Spec2Model ----
(***************************************************************************)
(* Model of src/visualizacion.js: the FoliumMexicoMap component.           *)
(*                                                                         *)
(* State is the component's React state (csvData, processedData,           *)
(* selectedPolarity, fileLoaded, loading, error, stats), the document      *)
(* written to the iframe (mapRef.current.srcdoc) and the Papa.parse calls  *)
(* whose callback has not run yet.  One action per event handler or parser *)
(* callback; the useEffect that follows a change of csvData or             *)
(* selectedPolarity is part of the action that makes the change, with the  *)
(* state updates of one handler applied together (one render per handler). *)
(*                                                                         *)
(* Representation:                                                         *)
(*   - a JavaScript value of a Polarity cell is a record [t, x10, s]: its  *)
(*     type, ten times its numeric value, and its property-key string;     *)
(*   - a JavaScript object is a function from its keys (strings);          *)
(*     `grouped`, whose iteration order matters, also carries its keys in  *)
(*     insertion order;                                                    *)
(*   - a string built from parts (the error message) is the tuple of its   *)
(*     parts; '' is << >>;                                                 *)
(*   - coordinates are in units of 1e-4 degree; a percentage string with   *)
(*     one decimal is the integer number of tenths.                        *)
(***************************************************************************)
EXTENDS Integers, Sequences, FiniteSets, TLC

\* Bounds of the model.
MaxRows == 2
MaxInFlight == 2

(***************************************************************************)
(* The fixed tables.                                                       *)
(***************************************************************************)
stateMapping ==
  [ QuintanaRoo |-> "Quintana Roo",
    Estado_de_Mexico |-> "Estado de México",
    Baja_CaliforniaSur |-> "Baja California Sur",
    San_Luis_Potosi |-> "San Luis Potosí",
    Michoacan |-> "Michoacán",
    Queretaro |-> "Querétaro",
    Yucatan |-> "Yucatán",
    Nayarit |-> "Nayarit",
    Chiapas |-> "Chiapas",
    Chihuahua |-> "Chihuahua",
    Guerrero |-> "Guerrero",
    Puebla |-> "Puebla",
    Jalisco |-> "Jalisco",
    Coahuila |-> "Coahuila",
    Veracruz |-> "Veracruz",
    Hidalgo |-> "Hidalgo",
    Morelos |-> "Morelos",
    Oaxaca |-> "Oaxaca",
    Guanajuato |-> "Guanajuato" ]

stateCoordinates ==
  ("Quintana Roo" :> <<211619, -868515>>) @@
  ("Estado de México" :> <<194326, -996795>>) @@
  ("Baja California Sur" :> <<241442, -1103005>>) @@
  ("San Luis Potosí" :> <<221565, -1009855>>) @@
  ("Michoacán" :> <<197007, -1011884>>) @@
  ("Querétaro" :> <<205888, -1003899>>) @@
  ("Yucatán" :> <<209674, -895926>>) @@
  ("Nayarit" :> <<217514, -1048455>>) @@
  ("Chiapas" :> <<167569, -931292>>) @@
  ("Chihuahua" :> <<286353, -1060889>>) @@
  ("Guerrero" :> <<174391, -995451>>) @@
  ("Puebla" :> <<190414, -982063>>) @@
  ("Jalisco" :> <<206597, -1033496>>) @@
  ("Coahuila" :> <<254232, -1010053>>) @@
  ("Veracruz" :> <<191738, -961342>>) @@
  ("Hidalgo" :> <<200911, -987624>>) @@
  ("Morelos" :> <<186813, -991013>>) @@
  ("Oaxaca" :> <<170732, -967266>>) @@
  ("Guanajuato" :> <<210190, -1012574>>)

\* The values the polarity selector offers; the keys of polarityColors and
\* polarityLabels.
polarityOptions == 1..5

\* The property key a selected polarity reads: String(p).
polarityKey == [p \in polarityOptions |-> <<"1", "2", "3", "4", "5">>[p]]

requiredColumns == <<"Title", "Review", "Polarity", "Town", "Region", "Type">>

(***************************************************************************)
(* JavaScript values of a cell after Papa's dynamicTyping.                 *)
(***************************************************************************)
JsNum(x10, s) == [t |-> "number", x10 |-> x10, s |-> s]
JsStr(s) == [t |-> "string", x10 |-> 0, s |-> s]
JsUndefined == [t |-> "undefined", x10 |-> 0, s |-> ""]

\* Boolean(v): 0, NaN, '', null and undefined are falsy.
Truthy(v) == IF v.t = "number" THEN v.x10 # 0 ELSE v.s # ""

\* v >= n and v <= n for an integer n: a string that is not numeric converts
\* to NaN (dynamicTyping has already turned the numeric strings into numbers),
\* and every comparison with NaN is false.
JsGe(v, n) == v.t = "number" /\ v.x10 >= 10 * n
JsLe(v, n) == v.t = "number" /\ v.x10 <= 10 * n

(***************************************************************************)
(* The files the user can select, as the parser reports them:              *)
(* results.data, each row keyed by the header's fields.                    *)
(***************************************************************************)
Row(region, polarity) == [Region |-> region, Polarity |-> polarity]

\* The rows files are made of.  An empty Region cell is ''/null; "QuintanaRoo"
\* is an alias of "Quintana Roo", "Jalisco" is its own alias, "Atlantis" is in
\* neither table.  Polarity cells: integers in and out of 1..5, a number that
\* is not an integer, a string that is not a number.
Rows ==
  { Row("QuintanaRoo", JsNum(30, "3")),
    Row("Quintana Roo", JsNum(50, "5")),
    Row("Jalisco", JsNum(10, "1")),
    Row("Jalisco", JsNum(50, "5")),
    Row("Jalisco", JsNum(25, "2.5")),
    Row("Atlantis", JsNum(30, "3")),
    Row("", JsNum(30, "3")),
    Row("Jalisco", JsNum(0, "0")),
    Row("Jalisco", JsNum(60, "6")),
    Row("Jalisco", JsStr("abc")) }

RECURSIVE SeqsUpTo(_, _)
SeqsUpTo(S, n) ==
  IF n = 0 THEN {<< >>}
  ELSE LET shorter == SeqsUpTo(S, n - 1)
       IN shorter \cup {Append(q, x) : q \in {r \in shorter : Len(r) = n - 1}, x \in S}

AllColumns == {requiredColumns[i] : i \in DOMAIN requiredColumns}

\* Headers with a column missing: Review; Polarity and Region; all of them.
ShortHeaders ==
  { AllColumns \ {"Review"}, AllColumns \ {"Polarity", "Region"}, {} }

\* A row of a file whose header lacks a column has no such property: reading
\* it gives undefined.
ShortRow(fields) ==
  [Region |-> IF "Region" \in fields THEN "Jalisco" ELSE "",
   Polarity |-> IF "Polarity" \in fields THEN JsNum(50, "5") ELSE JsUndefined]

\* fields is the header line of the file, data is results.data.
Files ==
  [fields : {AllColumns}, data : SeqsUpTo(Rows, MaxRows)] \cup
  UNION {{[fields |-> h, data |-> << >>], [fields |-> h, data |-> <<ShortRow(h)>>]} :
           h \in ShortHeaders \ {{}}} \cup
  {[fields |-> {}, data |-> << >>]}

(***************************************************************************)
(* processData (lines 138-193) and generateFoliumMap (lines 196-308).      *)
(***************************************************************************)
newBucket ==
  [k \in {"1", "2", "3", "4", "5", "total"} |-> 0]

\* One step of the reduce of lines 141-153.  acc.keys are the own keys of the
\* accumulator in insertion order, acc.obj maps each to its bucket.
groupRow(acc, row) ==
  LET region == row.Region
      polarity == row.Polarity.s
      bucket == IF region \in DOMAIN acc.obj THEN acc.obj[region] ELSE newBucket
      old == IF polarity \in DOMAIN bucket THEN bucket[polarity] ELSE 0
  IN [keys |-> IF region \in DOMAIN acc.obj
                 THEN acc.keys
                 ELSE Append(acc.keys, region),
      obj |-> (region :> [((polarity :> old + 1) @@ bucket)
                            EXCEPT !["total"] = @ + 1])
              @@ acc.obj]

RECURSIVE reduceRows(_, _)
reduceRows(acc, rows) ==
  IF rows = << >> THEN acc
  ELSE reduceRows(groupRow(acc, Head(rows)), Tail(rows))

grouped(rows) ==
  reduceRows([keys |-> << >>, obj |-> [r \in {} |-> newBucket]], rows)

\* stateMapping[region] || region
standardNameOf(region) ==
  IF region \in DOMAIN stateMapping THEN stateMapping[region] ELSE region

\* ((count / total) * 100).toFixed(1), in tenths.
toFixed1(count, total) == (2000 * count + total) \div (2 * total)

\* projectEntry with the region left out when its count is 0.
projectEntry_skipZero(out, region, polarityData, selected) ==
  LET standardName == standardNameOf(region)
      count == polarityData[polarityKey[selected]]
  IN IF standardName \in DOMAIN stateCoordinates /\ count > 0
       THEN [processedForPolarity |->
               (standardName :>
                  [originalName |-> region,
                   count |-> count,
                   total |-> polarityData["total"],
                   percentage |-> IF polarityData["total"] > 0
                                    THEN toFixed1(count, polarityData["total"])
                                    ELSE 0,
                   coordinates |-> stateCoordinates[standardName],
                   allPolarities |-> polarityData])
               @@ out.processedForPolarity,
             maxCount |-> IF count > out.maxCount THEN count ELSE out.maxCount,
             totalReviews |-> out.totalReviews + count]
       ELSE out

\* projectEntry with maxCount and totalReviews updated outside the test of
\* the coordinates.
projectEntry_countAll(out, region, polarityData, selected) ==
  LET standardName == standardNameOf(region)
      count == polarityData[polarityKey[selected]]
  IN [processedForPolarity |->
        IF standardName \in DOMAIN stateCoordinates
          THEN (standardName :>
                  [originalName |-> region,
                   count |-> count,
                   total |-> polarityData["total"],
                   percentage |-> IF polarityData["total"] > 0
                                    THEN toFixed1(count, polarityData["total"])
                                    ELSE 0,
                   coordinates |-> stateCoordinates[standardName],
                   allPolarities |-> polarityData])
               @@ out.processedForPolarity
          ELSE out.processedForPolarity,
      maxCount |-> IF count > out.maxCount THEN count ELSE out.maxCount,
      totalReviews |-> out.totalReviews + count]

\* The body of the forEach of lines 160-178 for one entry of grouped.
\* out is [processedForPolarity, maxCount, totalReviews].
projectEntry(out, region, polarityData, selected) ==
  LET standardName == standardNameOf(region)
      count == polarityData[polarityKey[selected]]
  IN IF standardName \in DOMAIN stateCoordinates
       THEN [processedForPolarity |->
               (standardName :>
                  [originalName |-> region,
                   count |-> count,
                   total |-> polarityData["total"],
                   percentage |-> IF polarityData["total"] > 0
                                    THEN toFixed1(count, polarityData["total"])
                                    ELSE 0,
                   coordinates |-> stateCoordinates[standardName],
                   allPolarities |-> polarityData])
               @@ out.processedForPolarity,
             maxCount |-> IF count > out.maxCount THEN count ELSE out.maxCount,
             totalReviews |-> out.totalReviews + count]
       ELSE out

RECURSIVE forEachEntry(_, _, _, _)
forEachEntry(out, keys, obj, selected) ==
  IF keys = << >> THEN out
  ELSE forEachEntry(projectEntry(out, Head(keys), obj[Head(keys)], selected),
                    Tail(keys), obj, selected)

\* Lines 141-178: the projection of the rows for the selected polarity.
projection(rows, selected) ==
  LET g == grouped(rows)
  IN forEachEntry([processedForPolarity |-> [n \in {} |-> 0],
                   maxCount |-> 0, totalReviews |-> 0],
                  g.keys, g.obj, selected)

\* The marker generateFoliumMap writes for one entry of data (lines 243-272).
\* intensity is the fraction num/den; opacity is 0.3 + intensity * 0.7 and
\* radius is 10 + intensity * 20.
markerOf(stateData, maxCount) ==
  [coordinates |-> stateData.coordinates,
   intensity |-> IF maxCount > 0
                   THEN [num |-> stateData.count, den |-> maxCount]
                   ELSE [num |-> 0, den |-> 1],
   count |-> stateData.count,
   total |-> stateData.total,
   percentage |-> stateData.percentage,
   allPolarities |-> [p \in polarityOptions |-> stateData.allPolarities[polarityKey[p]]]]

\* The document of lines 201-302.  selected and closureStats are the
\* selectedPolarity and stats of the render whose effect is running.
mapHTML(data, maxCount, selected, closureStats) ==
  [polarity |-> selected,
   markers |-> [n \in DOMAIN data |-> markerOf(data[n], maxCount)],
   legendTotal |-> closureStats.totalReviews]

noDocument == [polarity |-> 0, markers |-> [n \in {} |-> 0], legendTotal |-> 0]

(***************************************************************************)
(* The ranked table (lines 311-312 and 519-544).                           *)
(***************************************************************************)
RECURSIVE namesInOrder(_, _)
\* The own keys of processedForPolarity in insertion order, for the keys of
\* grouped in their order: line 166 adds standardName at its first
\* assignment, a later assignment keeps its place.
namesInOrder(keys, seen) ==
  IF keys = << >> THEN << >>
  ELSE IF /\ standardNameOf(Head(keys)) \in DOMAIN stateCoordinates
          /\ standardNameOf(Head(keys)) \notin seen
         THEN <<standardNameOf(Head(keys))>> \o
              namesInOrder(Tail(keys), seen \cup {standardNameOf(Head(keys))})
         ELSE namesInOrder(Tail(keys), seen)

RECURSIVE insertByCount(_, _)
\* entry placed after the entries of sorted whose count is not smaller.
insertByCount(sorted, entry) ==
  IF sorted = << >> THEN <<entry>>
  ELSE IF Head(sorted)[2].count >= entry[2].count
         THEN <<Head(sorted)>> \o insertByCount(Tail(sorted), entry)
         ELSE <<entry>> \o sorted

RECURSIVE sortByCount(_, _)
\* .sort(([,a], [,b]) => b.count - a.count): descending by count, entries of
\* equal count in their original order.
sortByCount(sorted, entries) ==
  IF entries = << >> THEN sorted
  ELSE sortByCount(insertByCount(sorted, Head(entries)), Tail(entries))

\* Lines 311-312: the [stateName, data] pairs of data, ranked; rows are the
\* rows data was computed from.
tableData(rows, data) ==
  sortByCount(<< >>, [i \in 1..Len(namesInOrder(grouped(rows).keys, {})) |->
                        <<namesInOrder(grouped(rows).keys, {})[i],
                          data[namesInOrder(grouped(rows).keys, {})[i]]>>])

\* a / b for integers a >= 0 and b >= 0: the fraction num/den, Infinity for
\* a > 0 and b = 0, NaN for 0 / 0.
JsDivide(a, b) ==
  IF b # 0 THEN [t |-> "finite", num |-> a, den |-> b]
  ELSE IF a # 0 THEN [t |-> "Infinity", num |-> 0, den |-> 1]
  ELSE [t |-> "NaN", num |-> 0, den |-> 1]

\* Line 537: (data.count / stats.maxCount) * 100, the number before the '%'
\* of the bar's width.
barWidth(data, tableStats) ==
  [JsDivide(data.count, tableStats.maxCount) EXCEPT !.num = @ * 100]

\* csvData .. stats are the useState cells of lines 6-12; srcdoc is
\* mapRef.current.srcdoc; parsing is the number of Papa.parse calls whose
\* callback has not run; event is the results the complete callback was
\* given (the file's header, the number of rows the filter kept) when the
\* last step was that callback.
\* newestParsing tells whether the Papa.parse call made last is among those
\* whose callback has not run; event.newest whether the callback of the last
\* step was that call's.
VARIABLES csvData, processedData, selectedPolarity, fileLoaded, loading,
          error, stats, srcdoc, parsing, event, newestParsing

vars == <<csvData, processedData, selectedPolarity, fileLoaded, loading,
          error, stats, srcdoc, parsing, event, newestParsing>>

noEvent == [name |-> "", fields |-> {}, kept |-> 0, newest |-> FALSE]

Init ==
  /\ csvData = << >>
  /\ processedData = [n \in {} |-> 0]
  /\ selectedPolarity = 3
  /\ fileLoaded = FALSE
  /\ loading = FALSE
  /\ error = << >>
  /\ stats = [totalStates |-> 0, totalReviews |-> 0, maxCount |-> 0]
  /\ srcdoc = noDocument
  /\ parsing = 0
  /\ event = noEvent
  /\ newestParsing = FALSE

\* Lines 180-188 of processData: the state it sets and the document it
\* writes, given the result out of lines 141-178.  The effect of lines 132-136
\* runs it after the render that committed the rows and selected; stats
\* inside generateFoliumMap is the stats of that render, the value before
\* setStats takes effect.
setProcessed(out, selected) ==
  /\ processedData' = out.processedForPolarity
  /\ stats' = [totalStates |-> Cardinality(DOMAIN out.processedForPolarity),
               totalReviews |-> out.totalReviews,
               maxCount |-> out.maxCount]
  /\ srcdoc' = mapHTML(out.processedForPolarity, out.maxCount, selected, stats)

processData(rows, selected) == setProcessed(projection(rows, selected), selected)

\* Lines 79-88: the file input's onChange.
handleFileUpload(hasFile) ==
  IF ~hasFile
    THEN /\ event' = noEvent
         /\ UNCHANGED <<csvData, processedData, selectedPolarity, fileLoaded,
                        loading, error, stats, srcdoc, parsing, newestParsing>>
    ELSE /\ parsing < MaxInFlight
         /\ loading' = TRUE
         /\ error' = << >>
         /\ parsing' = parsing + 1
         /\ newestParsing' = TRUE
         /\ event' = noEvent
         /\ UNCHANGED <<csvData, processedData, selectedPolarity, fileLoaded,
                        stats, srcdoc>>

\* Line 94: Object.keys(results.data[0] || {}).
headersOf(file) == IF file.data = << >> THEN {} ELSE file.fields

\* Line 95: requiredColumns.filter(col => !headers.includes(col)).
missingColumns(headers) ==
  SelectSeq(requiredColumns, LAMBDA col : col \notin headers)

\* Lines 102-107.
validRow(row) ==
  /\ row.Region # ""
  /\ Truthy(row.Polarity)
  /\ JsGe(row.Polarity, 1)
  /\ JsLe(row.Polarity, 5)

validData(file) == SelectSeq(file.data, validRow)

\* A callback runs for one of the calls in flight, in any order: for the call
\* made last if it is in flight, or for an earlier one if there is one.
callbackOfOne ==
  /\ parsing > 0
  /\ parsing' = parsing - 1
  /\ newestParsing' \in {b \in BOOLEAN : b => (newestParsing /\ parsing > 1)}

\* Lines 96-122 of the complete callback, with missing the missingColumns of
\* line 95 and valid the validData of lines 102-107; then the effect of lines
\* 132-136 when csvData was replaced.
completeWith(file, missing, valid) ==
  /\ callbackOfOne
  /\ loading' = FALSE
  /\ event' = [name |-> "complete", fields |-> file.fields, kept |-> Len(valid),
               newest |-> newestParsing /\ ~newestParsing']
  /\ UNCHANGED selectedPolarity
  /\ IF Len(missing) > 0
       THEN /\ error' = <<"Columnas faltantes: ">> \o missing
            /\ UNCHANGED <<csvData, fileLoaded, processedData, stats, srcdoc>>
       ELSE IF Len(valid) = 0
         THEN /\ error' = <<"No se encontraron datos válidos en el CSV">>
              /\ UNCHANGED <<csvData, fileLoaded, processedData, stats, srcdoc>>
         ELSE /\ csvData' = valid
              /\ fileLoaded' = TRUE
              /\ UNCHANGED error
              /\ IF Len(valid) > 0
                   THEN processData(valid, selectedPolarity)
                   ELSE UNCHANGED <<processedData, stats, srcdoc>>

\* Lines 90-123: the parser's complete callback for the results of file.
complete(file) ==
  completeWith(file, missingColumns(headersOf(file)), validData(file))

\* Lines 124-127: the parser's error callback.
parseError ==
  /\ callbackOfOne
  /\ error' = <<"Error al leer el archivo: ">>
  /\ loading' = FALSE
  /\ event' = [noEvent EXCEPT !.name = "error",
                              !.newest = newestParsing /\ ~newestParsing']
  /\ UNCHANGED <<csvData, processedData, selectedPolarity, fileLoaded, stats, srcdoc>>

\* Lines 365-368: the polarity select's onChange (the select is disabled
\* until a file is loaded, and fires only for a value other than the current
\* one), and the effect of lines 132-136.
selectPolarity(p) ==
  /\ fileLoaded
  /\ p # selectedPolarity
  /\ selectedPolarity' = p
  /\ event' = noEvent
  /\ UNCHANGED <<csvData, fileLoaded, loading, error, parsing, newestParsing>>
  /\ IF Len(csvData) > 0
       THEN processData(csvData, p)
       ELSE UNCHANGED <<processedData, stats, srcdoc>>

Next ==
  \/ \E hasFile \in BOOLEAN : handleFileUpload(hasFile)
  \/ \E file \in Files : complete(file)
  \/ parseError
  \/ \E p \in polarityOptions : selectPolarity(p)

Spec == Init /\ [][Next]_vars

(***************************************************************************)
(* Vocabulary of the properties.                                           *)
(***************************************************************************)
RECURSIVE SumOf(_, _)
\* The sum of f[n].count over the keys n in S.
SumOf(f, S) ==
  IF S = {} THEN 0
  ELSE LET n == CHOOSE m \in S : TRUE
       IN f[n].count + SumOf(f, S \ {n})

SumOfCounts(f) == SumOf(f, DOMAIN f)

\* The greatest count of the entries of f, 0 if there are none.
MaxOfCounts(f) ==
  IF DOMAIN f = {} THEN 0
  ELSE CHOOSE c \in {f[n].count : n \in DOMAIN f} :
         \A n \in DOMAIN f : f[n].count <= c

IsIntegerPolarity(v) == v.t = "number" /\ v.x10 \in {10 * p : p \in polarityOptions}

HasPolarity(row, p) == row.Polarity.t = "number" /\ row.Polarity.x10 = 10 * p

Mappable(region) == standardNameOf(region) \in DOMAIN stateCoordinates

IsMappableRow(row) == Mappable(row.Region)

SchemaMessage == error # << >> /\ Head(error) = "Columnas faltantes: "
EmptyMessage == error = <<"No se encontraron datos válidos en el CSV">>

\* The rearrangements of a sequence.
PermutationsOf(rows) ==
  {[i \in 1..Len(rows) |-> rows[f[i]]] : f \in Permutations(1..Len(rows))}

\* What the view rows show of the buckets: total and the counts for 1..5.
BucketsShown(viewRows) ==
  [n \in DOMAIN viewRows |->
     [total |-> viewRows[n].total,
      counts |-> [p \in polarityOptions |-> viewRows[n].allPolarities[polarityKey[p]]]]]

(***************************************************************************)
(* The properties.                                                         *)
(***************************************************************************)

\* C1: whenever the session shows an error (an upload ended in failure), no
\* rows are retained and the session is not marked loaded: never Error and
\* Loaded at once.
C1_FailureResetsSession ==
  error # << >> => (csvData = << >> /\ ~fileLoaded)

\* C2: after every projection the stats agree with the view rows: totalStates
\* is their number, totalReviews the sum of their counts, maxCount the
\* greatest of their counts (0 if there are none).
C2_StatsAgreeWithViewRows ==
  fileLoaded =>
    /\ stats.totalStates = Cardinality(DOMAIN processedData)
    /\ stats.totalReviews = SumOfCounts(processedData)
    /\ stats.maxCount = MaxOfCounts(processedData)

\* C3: the counts of the view rows for the selected polarity p sum to at most
\* the number of valid rows of polarity p, and to exactly that number when
\* every region key with a row of polarity p is mappable.
C3_CountsMatchRows ==
  fileLoaded =>
    LET p == selectedPolarity
        ofPolarity == SelectSeq(csvData, LAMBDA row : HasPolarity(row, p))
    IN /\ SumOfCounts(processedData) <= Len(ofPolarity)
       /\ (\A i \in DOMAIN ofPolarity : Mappable(ofPolarity[i].Region))
            => SumOfCounts(processedData) = Len(ofPolarity)

\* C4: every row kept in csvData has a non-empty Region and a Polarity that
\* is an integer in 1..5; rows with any other Polarity are dropped.
C4_KeptRowsAreValid ==
  \A i \in DOMAIN csvData :
    /\ csvData[i].Region # ""
    /\ IsIntegerPolarity(csvData[i].Polarity)

\* C5: a parsed upload fails with the missing-columns message iff its header
\* lacks a required column, the message then lists exactly the missing
\* columns; with a complete header and no surviving row it fails with the
\* empty-dataset message.
C5_SchemaErrorIffHeaderLacksColumn ==
  event.name = "complete" =>
    LET lacking == AllColumns \ event.fields
    IN /\ SchemaMessage <=> lacking # {}
       /\ SchemaMessage =>
            Tail(error) = SelectSeq(requiredColumns, LAMBDA col : col \in lacking)
       /\ (lacking = {} /\ event.kept = 0) => EmptyMessage

\* C6: the legend of the generated document shows the totalReviews of the
\* stats computed in the same recomputation, which is the sum of the counts
\* of the document's markers.
C6_LegendShowsCurrentTotal ==
  fileLoaded =>
    /\ srcdoc.legendTotal = stats.totalReviews
    /\ srcdoc.legendTotal = SumOfCounts(srcdoc.markers)

\* C7: a change of selectedPolarity leaves the rows, the loaded, loading and
\* error flags, the set of regions with a view row and each view row's total,
\* coordinates and allPolarities as they were.
C7_PolarityChangeFrame ==
  [][selectedPolarity' # selectedPolarity =>
       /\ csvData' = csvData
       /\ fileLoaded' = fileLoaded
       /\ loading' = loading
       /\ error' = error
       /\ DOMAIN processedData' = DOMAIN processedData
       /\ \A n \in DOMAIN processedData :
            /\ processedData'[n].total = processedData[n].total
            /\ processedData'[n].coordinates = processedData[n].coordinates
            /\ processedData'[n].allPolarities = processedData[n].allPolarities]_vars

\* A polarity other than the initial one is selected over two view rows, one
\* of which has reviews of it.
C7_Witness ==
  /\ fileLoaded
  /\ selectedPolarity = 5
  /\ Cardinality(DOMAIN processedData) = 2
  /\ stats.totalReviews > 0

\* C8: the buckets seen in the view rows (total and the counts for 1..5 of
\* each region) are the same for every rearrangement of the rows.
C8_OrderIndependent ==
  fileLoaded =>
    \A rows \in PermutationsOf(csvData) :
      BucketsShown(projection(rows, selectedPolarity).processedForPolarity)
        = BucketsShown(processedData)

\* The view rows, the stats and the markers of the next state are those of
\* the projection out, and every view row is of a mappable region.
ShowsOnly(out) ==
  /\ processedData' = out.processedForPolarity
  /\ stats' = [totalStates |-> Cardinality(DOMAIN out.processedForPolarity),
               totalReviews |-> out.totalReviews,
               maxCount |-> out.maxCount]
  /\ DOMAIN srcdoc'.markers = DOMAIN out.processedForPolarity
  /\ \A n \in DOMAIN processedData' : Mappable(processedData'[n].originalName)

\* C9: rows of a region without coordinates are kept in csvData, and the view
\* rows, the stats and the markers are what they are without those rows, for
\* every selected polarity; the upload that brings them sets no error.
C9_UnmappableRowsExcluded ==
  [][/\ fileLoaded' =>
          ShowsOnly(projection(SelectSeq(csvData', IsMappableRow), selectedPolarity'))
     /\ (event'.name = "complete" /\ event'.fields = AllColumns /\ event'.kept > 0) =>
          /\ Len(csvData') = event'.kept
          /\ error' = error]_vars

\* Rows of Atlantis and of a mappable region are loaded.
C9_Witness ==
  /\ fileLoaded
  /\ event.name = "complete"
  /\ \E i \in DOMAIN csvData : csvData[i].Region = "Atlantis"
  /\ DOMAIN processedData # {}

\* C10: at most one parse is in flight: no upload starts while the session
\* is loading.
C10_OneParseInFlight ==
  parsing <= 1


\* The complete callback of the last step was given a file that passes the
\* validation: no required column missing, at least one row kept.
UploadSucceeded ==
  event.name = "complete" /\ event.fields = AllColumns /\ event.kept > 0

\* C11: once the callback of an upload has run with no upload started since
\* that one, the session is not loading and is either Loaded (the kept rows
\* stored, fileLoaded, no error message) if parsing and validation succeeded,
\* or in Error (an error message) if they failed.
C11_UploadSettles ==
  event.newest =>
    /\ ~loading
    /\ IF UploadSucceeded
         THEN fileLoaded /\ Len(csvData) = event.kept /\ error = << >>
         ELSE error # << >>

\* C12: in every loaded state the width of the intensity bar of every row of
\* the ranked table is a number between 0 and 100, equal to
\* 100 * count / maxCount, and 0 when maxCount is 0 as the marker's intensity
\* is: no division by zero.
C12_BarWidthDefined ==
  fileLoaded =>
    \A i \in DOMAIN tableData(csvData, processedData) :
      LET data == tableData(csvData, processedData)[i][2]
          width == barWidth(data, stats)
      IN /\ width.t = "finite"
         /\ 0 <= width.num /\ width.num <= 100 * width.den
         /\ stats.maxCount > 0 =>
              width.num * stats.maxCount = 100 * data.count * width.den
         /\ stats.maxCount = 0 =>
              /\ width.num = 0
              /\ srcdoc.markers[tableData(csvData, processedData)[i][1]].intensity.num = 0
====
